---- MODULE Spec2Model ----
(***************************************************************************)
(* Model of sample/main.cpp of hqx-shader: the start-up sequence of main   *)
(* (window, source image, pass-through program, the three hqNx programs    *)
(* and their lookup textures), the render loop, and key_callback.          *)
(* The OpenGL / GLFW / lodepng collaborators are modelled by the part of   *)
(* their state the program reads or writes: object names, the active       *)
(* texture unit, the per-unit 2D binding, the program in use, the window.  *)
(***************************************************************************)
EXTENDS Integers, Sequences, FiniteSets, TLC

\* ---------------------------------------------------------------- bounds
MaxFrames == 2      \* frames drawn in one run
MaxEvents == 2      \* key events delivered in one run
MaxFaults == 1      \* failing collaborator calls (decode, open, compile, link, init) in one run

\* ------------------------------------------------------ program constants
GLFW_KEY_0 == 48
GLFW_KEY_1 == 49
GLFW_KEY_4 == 52
GLFW_KEY_ESCAPE == 256
GLFW_RELEASE == 0
GLFW_PRESS == 1
GLFW_MOD_SHIFT == 1
GLFW_MOD_CONTROL == 2
GL_INVALID_OPERATION == 1282
CreateWidth == 640
CreateHeight == 480
\* image_scale starting at the pass-through slot
InitialScaleOne == 2 - 1
InitialScale == 2
\* the loop over the filter files stopping one short
NumFiltersShort == 3 - 1
NumFilters == 3
LoadStage == 9
SourceUnit == 0
LutUnit == 1
MinArgc == 2

\* ------------------------------------------------------------ input sets
\* key events delivered by glfwPollEvents: every press of a sample of keys under a
\* sample of modifier masks, and two releases
Keys == {GLFW_KEY_0, GLFW_KEY_1, GLFW_KEY_1 + 2, GLFW_KEY_4, GLFW_KEY_4 + 1, GLFW_KEY_ESCAPE}
KeyMods == {0, GLFW_MOD_SHIFT, GLFW_MOD_SHIFT + GLFW_MOD_CONTROL}
KeyInputs ==
    {<<key, GLFW_PRESS, mods>> : key \in Keys, mods \in KeyMods}
        \cup {<<GLFW_KEY_1 + 2, GLFW_RELEASE, 0>>, <<GLFW_KEY_ESCAPE, GLFW_RELEASE, 0>>}
ImageSizes == {<<16, 16>>, <<3, 5>>}
Argcs == {1, 2, 3}
\* outcomes of `delete error_log` on memory from new char[] (main.cpp:158, 182) and of
\* new char[length] with length never written (main.cpp:178-179): undefined behaviour
UbOutcomes == {"benign", "crash"}
Units == {SourceUnit, LutUnit, LoadStage}

VARIABLES
    pc,              \* position of main
    status,          \* "running", "exit_success", "exit_failure", "aborted", "crashed"
    ndebug,          \* the build defines NDEBUG (assert compiles to nothing)
    faults,          \* failing collaborator calls so far
    window,          \* [created, w, h]
    should_close,    \* glfwWindowShouldClose flag
    size_requests,   \* number of glfwSetWindowSize calls
    viewport,        \* last glViewport size
    image_width, image_height, image_scale,
    texture, vertex_shader, fragment_shader, program, i,
    programs, lut_textures,
    gl_textures, gl_programs, gl_linked, gl_shaders, gl_compiled, gl_buffers,
    active_unit, bound, current_program,
    err_log,         \* calls of error_callback: <<[code, description]>>
    out_log,         \* lines written to stdout
    uniform_log,     \* glUniform* calls: [name, value, target, current, sized]
    frames,          \* glDrawElements calls
    n_events, last_event

glvars == <<gl_textures, gl_programs, gl_linked, gl_shaders, gl_compiled, gl_buffers,
            active_unit, bound, current_program>>
regvars == <<programs, lut_textures>>
winvars == <<window, should_close, size_requests, viewport>>
imgvars == <<image_width, image_height, texture>>
locals == <<vertex_shader, fragment_shader, program, i>>
evvars == <<n_events, last_event>>
logvars == <<err_log, out_log, uniform_log>>
vars == <<pc, status, ndebug, faults, image_scale, frames,
          glvars, regvars, winvars, imgvars, locals, evvars, logvars>>

NoEvent == [key |-> 0, action |-> 0, mods |-> 0]

Init ==
    /\ pc = "args"
    /\ status = "running"
    /\ ndebug \in BOOLEAN
    /\ faults = 0
    /\ window = [created |-> FALSE, w |-> 0, h |-> 0]
    /\ should_close = FALSE
    /\ size_requests = 0
    /\ viewport = <<0, 0>>
    /\ image_width = 0
    /\ image_height = 0
    /\ image_scale = InitialScale
    /\ texture = 0
    /\ vertex_shader = 0
    /\ fragment_shader = 0
    /\ program = 0
    /\ i = 0
    /\ programs = <<>>
    /\ lut_textures = <<>>
    /\ gl_textures = {}
    /\ gl_programs = {}
    /\ gl_linked = {}
    /\ gl_shaders = {}
    /\ gl_compiled = {}
    /\ gl_buffers = {}
    /\ active_unit = SourceUnit
    /\ bound = [u \in Units |-> 0]
    /\ current_program = 0
    /\ err_log = <<>>
    /\ out_log = <<>>
    /\ uniform_log = {}
    /\ frames = 0
    /\ n_events = 0
    /\ last_event = NoEvent

\* ---------------------------------------------------------------- helpers
SetMax(S) == IF S = {} THEN 0 ELSE CHOOSE x \in S : \A y \in S : y <= x

\* glGenTextures: an unused texture name
NewTexture == SetMax(gl_textures) + 1

\* glCreateShader / glCreateProgram: an unused name (shaders and programs share names)
NewObject == SetMax(gl_shaders \cup gl_programs) + 1

\* vector element k (0-based, as the code indexes it)
At(vec, k) == vec[k + 1]

\* image_width * image_scale in uint32_t; with the sizes of ImageSizes and a scale of
\* at most 4 the product stays far below 2^31, so it never wraps
Mul32(a, b) == a * b

\* error_callback: writes the description to stderr, then assert(false)
ErrorRecord(code, description) == [code |-> code, description |-> description]

\* assert(false) terminates the process unless the build defines NDEBUG
AssertAborts == ~ndebug

\* glUseProgram(p): p becomes current when it is 0 or a linked program;
\* otherwise GL_INVALID_OPERATION and the program in use stays
UseProgram(p) == IF p = 0 \/ p \in gl_linked THEN p ELSE current_program

UniformCall(name, value, target, current) ==
    [name |-> name, value |-> value, target |-> target, current |-> current,
     sized |-> texture # 0]


\* ------------------------------------------------------------ key_callback
\* the range test starting one key too low
IsScaleKeyFromZero(key) == GLFW_KEY_0 <= key /\ key <= GLFW_KEY_4

\* main.cpp:83  GLFW_KEY_1 <= key && key <= GLFW_KEY_4
IsScaleKey(key) == GLFW_KEY_1 <= key /\ key <= GLFW_KEY_4

\* the scale taken relative to the wrong key
KeyScaleFromOne(key) == key - GLFW_KEY_1

\* main.cpp:85  image_scale = key - GLFW_KEY_0
KeyScale(key) == key - GLFW_KEY_0

\* main.cpp:87  if (mods != GLFW_MOD_SHIFT)
ResizeOnPress(mods) == mods # GLFW_MOD_SHIFT

\* main.cpp:78-90, run by glfwPollEvents for one key event
key_callback(key, action, mods) ==
    /\ pc = "poll"
    /\ n_events < MaxEvents
    /\ n_events' = n_events + 1
    /\ last_event' = [key |-> key, action |-> action, mods |-> mods]
    /\ should_close' = IF key = GLFW_KEY_ESCAPE /\ action = GLFW_PRESS
                       THEN TRUE ELSE should_close
    /\ IF IsScaleKey(key) /\ action = GLFW_PRESS
       THEN /\ image_scale' = KeyScale(key)
            /\ IF ResizeOnPress(mods)
               THEN /\ window' = [window EXCEPT !.w = Mul32(image_width, image_scale'),
                                                !.h = Mul32(image_height, image_scale')]
                    /\ size_requests' = size_requests + 1
               ELSE UNCHANGED <<window, size_requests>>
       ELSE UNCHANGED <<image_scale, window, size_requests>>
    /\ UNCHANGED <<pc, status, ndebug, faults, frames, viewport,
                   glvars, regvars, imgvars, locals, logvars>>

\* ------------------------------------------------------------------- main
Halt(st) == status' = st /\ pc' = "done"

\* main.cpp:200-211
ParseArgs ==
    /\ pc = "args"
    /\ \E argc \in Argcs :
         IF argc < MinArgc
         THEN /\ out_log' = Append(out_log, "usage")
              /\ Halt("exit_failure")
         ELSE /\ out_log' = out_log
              /\ pc' = "glfwInit"
              /\ status' = status
    /\ UNCHANGED <<ndebug, faults, image_scale, frames, glvars, regvars, winvars,
                   imgvars, locals, evvars, err_log, uniform_log>>

\* a failing GLFW call reports through the callback installed at main.cpp:213,
\* then main exits (main.cpp:216, 224-225)
GlfwFailure ==
    /\ faults < MaxFaults
    /\ faults' = faults + 1
    /\ err_log' = Append(err_log, ErrorRecord("glfw", "glfw_description"))
    /\ Halt(IF AssertAborts THEN "aborted" ELSE "exit_failure")

\* main.cpp:213-216
GlfwInit ==
    /\ pc = "glfwInit"
    /\ \/ /\ pc' = "createWindow"
          /\ UNCHANGED <<status, faults, err_log>>
       \/ GlfwFailure
    /\ UNCHANGED <<ndebug, image_scale, frames, glvars, regvars, winvars,
                   imgvars, locals, evvars, out_log, uniform_log>>

\* main.cpp:218-232
CreateWindow ==
    /\ pc = "createWindow"
    /\ \/ /\ window' = [created |-> TRUE, w |-> CreateWidth, h |-> CreateHeight]
          /\ pc' = "loadImage"
          /\ UNCHANGED <<status, faults, err_log>>
       \/ /\ GlfwFailure
          /\ window' = window
    /\ UNCHANGED <<ndebug, image_scale, frames, glvars, regvars, should_close,
                   size_requests, viewport, imgvars, locals, evvars, out_log, uniform_log>>

\* load_texture without its exit(EXIT_FAILURE), as compile_shader is written
LoadTextureFailureNoExit == IF AssertAborts THEN "aborted" ELSE "running"

\* main.cpp:115-119: error_callback, then exit(EXIT_FAILURE)
LoadTextureFailure == IF AssertAborts THEN "aborted" ELSE "exit_failure"

\* main.cpp:108-132 followed by main.cpp:235-236 (the source image)
LoadImage ==
    /\ pc = "loadImage"
    /\ \/ \E size \in ImageSizes :
            LET tex == NewTexture IN
            /\ gl_textures' = gl_textures \cup {tex}
            /\ image_width' = size[1]
            /\ image_height' = size[2]
            /\ texture' = tex
            /\ active_unit' = SourceUnit
            /\ bound' = [[bound EXCEPT ![LoadStage] = tex] EXCEPT ![SourceUnit] = tex]
            /\ pc' = "genBuffer"
            /\ UNCHANGED <<status, faults, err_log>>
       \/ /\ faults < MaxFaults
          /\ faults' = faults + 1
          /\ err_log' = Append(err_log, ErrorRecord("lodepng", "lodepng_error_text"))
          /\ Halt(LoadTextureFailure)
          /\ UNCHANGED <<gl_textures, imgvars, active_unit, bound>>
    /\ UNCHANGED <<ndebug, image_scale, frames, gl_programs, gl_linked, gl_shaders,
                   gl_compiled, gl_buffers, current_program, regvars, winvars,
                   locals, evvars, out_log, uniform_log>>

\* main.cpp:238-243
GenBuffer ==
    /\ pc = "genBuffer"
    /\ gl_buffers' = gl_buffers \cup {SetMax(gl_buffers) + 1}
    /\ programs' = Append(programs, 0)
    /\ lut_textures' = Append(lut_textures, 0)
    /\ pc' = "pt_vs"
    /\ UNCHANGED <<status, ndebug, faults, image_scale, frames, gl_textures, gl_programs,
                   gl_linked, gl_shaders, gl_compiled, active_unit, bound, current_program,
                   winvars, imgvars, locals, evvars, logvars>>

\* main.cpp:134-162; the caller keeps the name in vertex_shader or fragment_shader
compile_shader(at, stage, next) ==
    /\ pc = at
    /\ LET shader == NewObject IN
       /\ gl_shaders' = gl_shaders \cup {shader}
       /\ IF stage = "vertex"
          THEN vertex_shader' = shader /\ fragment_shader' = fragment_shader
          ELSE fragment_shader' = shader /\ vertex_shader' = vertex_shader
       /\ \/ /\ gl_compiled' = gl_compiled \cup {shader}
             /\ pc' = next
             /\ UNCHANGED <<status, faults, err_log>>
          \/ /\ faults < MaxFaults
             /\ faults' = faults + 1
             /\ gl_compiled' = gl_compiled
             /\ err_log' = Append(err_log, ErrorRecord(GL_INVALID_OPERATION, "shader_info_log"))
             /\ IF AssertAborts
                THEN Halt("aborted")
                ELSE \E ub \in UbOutcomes :
                       IF ub = "crash" THEN Halt("crashed")
                       ELSE pc' = next /\ status' = status
    /\ UNCHANGED <<ndebug, image_scale, frames, gl_textures, gl_programs, gl_linked,
                   gl_buffers, active_unit, bound, current_program, regvars, winvars,
                   imgvars, program, i, evvars, out_log, uniform_log>>

\* main.cpp:164-190; the caller keeps the name in program
link_program(at, next) ==
    /\ pc = at
    /\ LET prog == NewObject IN
       /\ gl_programs' = gl_programs \cup {prog}
       /\ program' = prog
       /\ \/ /\ {vertex_shader, fragment_shader} \subseteq gl_compiled
             /\ gl_linked' = gl_linked \cup {prog}
             /\ gl_shaders' = gl_shaders \ {vertex_shader, fragment_shader}
             /\ gl_compiled' = gl_compiled \ {vertex_shader, fragment_shader}
             /\ pc' = next
             /\ UNCHANGED <<status, faults, err_log>>
          \/ /\ \/ ~({vertex_shader, fragment_shader} \subseteq gl_compiled) /\ faults' = faults
                \/ faults < MaxFaults /\ faults' = faults + 1
             /\ gl_linked' = gl_linked
             /\ err_log' = Append(err_log, ErrorRecord(GL_INVALID_OPERATION, "program_info_log"))
             /\ IF AssertAborts
                THEN Halt("aborted") /\ UNCHANGED <<gl_shaders, gl_compiled>>
                ELSE \E ub \in UbOutcomes :
                       IF ub = "crash"
                       THEN Halt("crashed") /\ UNCHANGED <<gl_shaders, gl_compiled>>
                       ELSE /\ gl_shaders' = gl_shaders \ {vertex_shader, fragment_shader}
                            /\ gl_compiled' = gl_compiled \ {vertex_shader, fragment_shader}
                            /\ pc' = next
                            /\ status' = status
    /\ UNCHANGED <<ndebug, image_scale, frames, gl_textures, gl_buffers, active_unit, bound,
                   current_program, regvars, winvars, imgvars, vertex_shader,
                   fragment_shader, i, evvars, out_log, uniform_log>>

\* main.cpp:246-260: the pass-through slot, its sampler uniform, the vertex attributes
PassthroughSlot ==
    /\ pc = "pt_slot"
    /\ programs' = Append(programs, program)
    /\ lut_textures' = Append(lut_textures, 0)
    /\ uniform_log' = uniform_log \cup
           {UniformCall("Texture", SourceUnit, At(programs', 1), current_program)}
    /\ i' = 0
    /\ pc' = "for"
    /\ UNCHANGED <<status, ndebug, faults, image_scale, frames, glvars, winvars, imgvars,
                   vertex_shader, fragment_shader, program, evvars, err_log, out_log>>

\* main.cpp:260  i < 3
ForTest ==
    /\ pc = "for"
    /\ pc' = IF i < NumFilters THEN "readFile" ELSE "setSize"
    /\ UNCHANGED <<status, ndebug, faults, image_scale, frames, glvars, regvars, winvars,
                   imgvars, locals, evvars, logvars>>

\* main.cpp:262-266 with read_file, main.cpp:92-106
ReadShaderFile ==
    /\ pc = "readFile"
    /\ \/ /\ pc' = "vs"
          /\ UNCHANGED <<status, faults, out_log>>
       \/ /\ faults < MaxFaults
          /\ faults' = faults + 1
          /\ out_log' = Append(out_log, "Failed to open")
          /\ Halt("exit_failure")
    /\ UNCHANGED <<ndebug, image_scale, frames, glvars, regvars, winvars, imgvars,
                   locals, evvars, err_log, uniform_log>>

\* main.cpp:271-280
SetUniforms ==
    /\ pc = "uniforms"
    /\ current_program' = UseProgram(program)
    /\ uniform_log' = uniform_log \cup
           { UniformCall("MVPMatrix", "identity", program, current_program'),
             UniformCall("Texture", SourceUnit, program, current_program'),
             UniformCall("LUT", LutUnit, program, current_program'),
             UniformCall("TextureSize", <<image_width, image_height>>, program,
                         current_program') }
    /\ pc' = "lut"
    /\ UNCHANGED <<status, ndebug, faults, image_scale, frames, gl_textures, gl_programs,
                   gl_linked, gl_shaders, gl_compiled, gl_buffers, active_unit, bound,
                   regvars, winvars, imgvars, locals, evvars, err_log, out_log>>

\* main.cpp:282-287 with load_texture(nullptr, nullptr, ...), then i++ (main.cpp:260)
LoadLut ==
    /\ pc = "lut"
    /\ \/ LET lut == NewTexture IN
          /\ gl_textures' = gl_textures \cup {lut}
          /\ active_unit' = LoadStage
          /\ bound' = [bound EXCEPT ![LoadStage] = lut]
          /\ programs' = Append(programs, program)
          /\ lut_textures' = Append(lut_textures, lut)
          /\ i' = i + 1
          /\ pc' = "for"
          /\ UNCHANGED <<status, faults, err_log>>
       \/ /\ faults < MaxFaults
          /\ faults' = faults + 1
          /\ err_log' = Append(err_log, ErrorRecord("lodepng", "lodepng_error_text"))
          /\ Halt(LoadTextureFailure)
          /\ UNCHANGED <<gl_textures, active_unit, bound, regvars, i>>
    /\ UNCHANGED <<ndebug, image_scale, frames, gl_programs, gl_linked, gl_shaders,
                   gl_compiled, gl_buffers, current_program, winvars, imgvars,
                   vertex_shader, fragment_shader, program, evvars, out_log, uniform_log>>

\* main.cpp:290
SetWindowSize ==
    /\ pc = "setSize"
    /\ window' = [window EXCEPT !.w = Mul32(image_width, image_scale),
                                !.h = Mul32(image_height, image_scale)]
    /\ size_requests' = size_requests + 1
    /\ pc' = "while"
    /\ UNCHANGED <<status, ndebug, faults, image_scale, frames, glvars, regvars,
                   should_close, viewport, imgvars, locals, evvars, logvars>>

\* main.cpp:291
WhileTest ==
    /\ pc = "while"
    /\ should_close \/ frames < MaxFrames
    /\ pc' = IF should_close THEN "shutdown" ELSE "frame"
    /\ UNCHANGED <<status, ndebug, faults, image_scale, frames, glvars, regvars, winvars,
                   imgvars, locals, evvars, logvars>>

\* the frame with the lookup texture generated anew instead of looked up
BindFrameAllocating ==
    /\ pc = "frame"
    /\ viewport' = <<window.w, window.h>>
    /\ current_program' = UseProgram(At(programs, image_scale))
    /\ active_unit' = LutUnit
    /\ gl_textures' = gl_textures \cup {NewTexture}
    /\ bound' = [bound EXCEPT ![LutUnit] = NewTexture]
    /\ pc' = "draw"
    /\ UNCHANGED <<status, ndebug, faults, image_scale, frames, gl_programs,
                   gl_linked, gl_shaders, gl_compiled, gl_buffers, regvars, window,
                   should_close, size_requests, imgvars, locals, evvars, logvars>>

\* main.cpp:293-301
BindFrame ==
    /\ pc = "frame"
    /\ viewport' = <<window.w, window.h>>
    /\ current_program' = UseProgram(At(programs, image_scale))
    /\ active_unit' = LutUnit
    /\ bound' = [bound EXCEPT ![LutUnit] = At(lut_textures, image_scale)]
    /\ pc' = "draw"
    /\ UNCHANGED <<status, ndebug, faults, image_scale, frames, gl_textures, gl_programs,
                   gl_linked, gl_shaders, gl_compiled, gl_buffers, regvars, window,
                   should_close, size_requests, imgvars, locals, evvars, logvars>>

\* main.cpp:303-305
Draw ==
    /\ pc = "draw"
    /\ frames' = frames + 1
    /\ pc' = "poll"
    /\ UNCHANGED <<status, ndebug, faults, image_scale, glvars, regvars, winvars,
                   imgvars, locals, evvars, logvars>>

\* main.cpp:306: glfwPollEvents delivers the user's close request
CloseRequest ==
    /\ pc = "poll"
    /\ ~should_close
    /\ should_close' = TRUE
    /\ UNCHANGED <<pc, status, ndebug, faults, image_scale, frames, glvars, regvars,
                   window, size_requests, viewport, imgvars, locals, evvars, logvars>>

\* main.cpp:306: glfwPollEvents returns
PollReturn ==
    /\ pc = "poll"
    /\ pc' = "while"
    /\ UNCHANGED <<status, ndebug, faults, image_scale, frames, glvars, regvars, winvars,
                   imgvars, locals, evvars, logvars>>

\* main.cpp:309-312: the window and, with it, the context and its objects go
Shutdown ==
    /\ pc = "shutdown"
    /\ window' = [window EXCEPT !.created = FALSE]
    /\ gl_textures' = {}
    /\ gl_programs' = {}
    /\ gl_linked' = {}
    /\ gl_shaders' = {}
    /\ gl_compiled' = {}
    /\ gl_buffers' = {}
    /\ bound' = [u \in Units |-> 0]
    /\ current_program' = 0
    /\ Halt("exit_success")
    /\ UNCHANGED <<ndebug, faults, image_scale, frames, active_unit, regvars, should_close,
                   size_requests, viewport, imgvars, locals, evvars, logvars>>

KeyEvent == \E e \in KeyInputs : key_callback(e[1], e[2], e[3])

Next ==
    \/ ParseArgs
    \/ GlfwInit
    \/ CreateWindow
    \/ LoadImage
    \/ GenBuffer
    \/ compile_shader("pt_vs", "vertex", "pt_fs")
    \/ compile_shader("pt_fs", "fragment", "pt_link")
    \/ link_program("pt_link", "pt_slot")
    \/ PassthroughSlot
    \/ ForTest
    \/ ReadShaderFile
    \/ compile_shader("vs", "vertex", "fs")
    \/ compile_shader("fs", "fragment", "link")
    \/ link_program("link", "uniforms")
    \/ SetUniforms
    \/ LoadLut
    \/ SetWindowSize
    \/ WhileTest
    \/ BindFrame
    \/ Draw
    \/ KeyEvent
    \/ CloseRequest
    \/ PollReturn
    \/ Shutdown

Spec == Init /\ [][Next]_vars

\* ================================================================ claims
InLoop == pc \in {"while", "frame", "draw", "poll"}
Initialized == pc \in {"setSize", "while", "frame", "draw", "poll", "shutdown"}
KeyStep == n_events' = n_events + 1
DigitPress(ev, d) == ev.key = GLFW_KEY_0 + d /\ ev.action = GLFW_PRESS
MappedPress(ev) == \E d \in 1..4 : DigitPress(ev, d)
GpuObjects == <<gl_textures, gl_programs, gl_linked, gl_shaders, gl_buffers>>
LastError == err_log[Len(err_log)]
CleanStart == err_log = <<>>

\* C1 (as amended): a press of digit key d, for every d in 1..4, makes d the
\* selection and creates or destroys no GPU object and no registry entry (so
\* pressing the digit already selected changes nothing); and the frame bound after
\* it takes its lookup texture, and its program when that one linked, from the
\* registry entry at the selected index.
C1_SelectResolves ==
    [][ /\ \A d \in 1..4 :
             (KeyStep /\ DigitPress(last_event', d)) =>
                 /\ image_scale' = d
                 /\ UNCHANGED <<GpuObjects, regvars>>
                 /\ (image_scale = d => UNCHANGED <<image_scale, glvars, regvars>>)
        /\ (pc = "frame" /\ pc' = "draw") =>
                 /\ bound'[LutUnit] = At(lut_textures, image_scale)
                 /\ (At(programs, image_scale) \in gl_linked =>
                        current_program' = At(programs, image_scale)) ]_vars

C1_Witness ==
    /\ pc = "draw"
    /\ n_events = 2
    /\ DigitPress(last_event, 3)
    /\ image_scale = 3
    /\ bound[LutUnit] = At(lut_textures, 3)
    /\ current_program = At(programs, 3)

\* C1 (as written): for every index i of the registry, 0 included, the request
\* for i makes i the selection.
C1_Original ==
    [][ \A d \in 0..4 :
          (KeyStep /\ d < Len(programs) /\ DigitPress(last_event', d)) => image_scale' = d ]_vars

\* C2 (as amended): a key event that is not a press of a digit key 1..4 leaves the
\* selection unchanged and is ignored without any error outcome: no error is
\* reported and the process keeps running.
C2_UnmappedIgnored ==
    [][ (KeyStep /\ ~MappedPress(last_event')) =>
            /\ image_scale' = image_scale
            /\ err_log' = err_log
            /\ status' = "running" ]_vars

C2_Witness ==
    /\ n_events = 1
    /\ DigitPress(last_event, 5)
    /\ image_scale = 2
    /\ err_log = <<>>
    /\ status = "running"

\* C2 (as written): a request for an index outside the registry fails with an
\* error outcome and leaves the selection unchanged.
C2_Original ==
    [][ (KeyStep /\ last_event'.action = GLFW_PRESS
                 /\ last_event'.key - GLFW_KEY_0 \notin 0..(Len(programs) - 1)) =>
            /\ image_scale' = image_scale
            /\ (Len(err_log') > Len(err_log) \/ status' # "running") ]_vars

\* C3: a press of digit key d in 1..4 sets the selection to d and resizes the
\* window to (image_width*d) x (image_height*d) exactly when no modifier is held.
C3_ResizeIffNoModifier ==
    [][ \A d \in 1..4 :
          (KeyStep /\ DigitPress(last_event', d)) =>
              /\ image_scale' = d
              /\ IF last_event'.mods = 0
                 THEN /\ size_requests' = size_requests + 1
                      /\ window'.w = image_width * d
                      /\ window'.h = image_height * d
                 ELSE UNCHANGED <<size_requests, window>> ]_vars

\* C4 (as amended): after an initialization in which nothing failed the registry
\* has exactly 5 entries: index 0 is an empty placeholder (no program, no lookup
\* texture), index 1 is the pass-through entry with a linked program and no lookup
\* texture, and each of the indices 2..4 holds one linked program and one lookup
\* texture of its own.
C4_RegistryShape ==
    (Initialized /\ pc # "shutdown" /\ CleanStart) =>
        /\ Len(programs) = 5
        /\ Len(lut_textures) = 5
        /\ At(programs, 0) = 0
        /\ At(lut_textures, 0) = 0
        /\ At(programs, 1) \in gl_linked
        /\ At(lut_textures, 1) = 0
        /\ \A k \in 2..4 :
             /\ At(programs, k) \in gl_linked
             /\ At(lut_textures, k) \in gl_textures \ {texture}
        /\ \A k, m \in 1..4 : k # m => At(programs, k) # At(programs, m)
        /\ \A k, m \in 2..4 : k # m => At(lut_textures, k) # At(lut_textures, m)

C4_Witness ==
    /\ pc = "while"
    /\ CleanStart
    /\ Len(programs) = 5
    /\ At(lut_textures, 4) \in gl_textures

\* C4 (as written): the registry has exactly 4 entries, index 0 holding the
\* pass-through program and no lookup texture, indices 1..3 a program and a
\* lookup texture each.
C4_Original ==
    (Initialized /\ pc # "shutdown" /\ CleanStart) =>
        /\ Len(programs) = 4
        /\ At(programs, 0) \in gl_linked
        /\ At(lut_textures, 0) = 0
        /\ \A k \in 1..3 :
             /\ At(programs, k) \in gl_linked
             /\ At(lut_textures, k) \in gl_textures

\* C5 (as amended): when the decode of a lookup-texture image fails, the process
\* ends at once with a failure (exit(EXIT_FAILURE), or the abort of the assertion
\* in error_callback) through the image-decode error path, before any frame is
\* drawn; the window has already been created by then.
C5_LutDecodeFailure ==
    [][ (pc = "lut" /\ Len(err_log') > Len(err_log)) =>
            /\ err_log'[Len(err_log')].description = "lodepng_error_text"
            /\ status' \in {"exit_failure", "aborted"}
            /\ pc' = "done"
            /\ frames' = 0
            /\ window'.created ]_vars

C5_Witness ==
    /\ pc = "done"
    /\ status = "exit_failure"
    /\ err_log # <<>>
    /\ LastError.description = "lodepng_error_text"
    /\ i = 2
    /\ window.created

\* C5 (as written): the failure exit for a missing lookup image happens before any
\* window has been created.
C5_Original ==
    (pc = "done" /\ texture # 0 /\ err_log # <<>>
        /\ LastError.description = "lodepng_error_text") => ~window.created

\* C6: a failed shader compile is fatal: once error_callback has reported a
\* compiler log the process has terminated, so it neither links nor renders.
C6_CompileFailureFatal ==
    (\E k \in 1..Len(err_log) : err_log[k].description = "shader_info_log") =>
        status # "running"

\* C7 (as amended): the window is created 640 x 480 and keeps that size until
\* main sets it to (W*2) x (H*2) just before the loop; the first frame, and every
\* frame while no key event has arrived, is drawn with the window and viewport at
\* (W*2) x (H*2) and with filter slot 2.
C7_StartupFrame ==
    /\ (window.created /\ size_requests = 0) =>
           (window.w = 640 /\ window.h = 480)
    /\ (pc = "draw" /\ (frames = 0 \/ n_events = 0)) =>
           /\ image_scale = 2
           /\ window.w = image_width * 2
           /\ window.h = image_height * 2
           /\ viewport = <<image_width * 2, image_height * 2>>
           /\ bound[LutUnit] = At(lut_textures, 2)
           /\ (CleanStart => current_program = At(programs, 2))

C7_Witness ==
    /\ pc = "draw"
    /\ frames = 0
    /\ CleanStart
    /\ image_width = 16
    /\ window.w = 32
    /\ current_program = At(programs, 2)

\* C7 (as written): without key input the window has size (W*2) x (H*2) from its
\* creation on.
C7_Original ==
    (window.created /\ n_events = 0) =>
        (window.w = image_width * 2 /\ window.h = image_height * 2)

\* C8: while the render loop runs, the registry (its indices and the handles at
\* them) does not change and no GPU object is created or destroyed; frames and key
\* events change only the selection (and window, bindings, program in use).
C8_LoopAllocatesNothing ==
    [][ (InLoop /\ pc' \in {"while", "frame", "draw", "poll"}) =>
            UNCHANGED <<regvars, GpuObjects, gl_compiled, texture>> ]_vars

C8_Witness ==
    /\ pc = "poll"
    /\ frames = 2
    /\ n_events = 2
    /\ image_scale = 3
    /\ Len(programs) = 5

\* C9: at every draw call the program in use is the selected slot's, unit 0 holds
\* the source image, and unit 1 holds a lookup texture only for a slot other than
\* the pass-through, and then that slot's own.
C9_DrawBindings ==
    pc = "draw" =>
        /\ current_program = At(programs, image_scale)
        /\ bound[SourceUnit] = texture
        /\ (bound[LutUnit] # 0 =>
               (image_scale # 1 /\ bound[LutUnit] = At(lut_textures, image_scale)))

\* C10: every uniform assignment is issued while the program it is meant for is
\* the program in use, and after the source image has been loaded.
C10_UniformsTargetActiveProgram ==
    \A u \in uniform_log : u.current = u.target /\ u.sized

====
